---- MODULE Spec2Model ----
(***************************************************************************)
(* A model of the Wordle game of src/game.js: the scoring function, the    *)
(* keyboard-hint aggregation, and the game state machine driven by key     *)
(* events, new-game requests and page loads, with the snapshot written to  *)
(* local storage by every render.                                          *)
(*                                                                         *)
(* Strings are sequences of one-character strings; arrays are sequences,   *)
(* so the JavaScript index i is the TLA+ index i + 1.  The cursors         *)
(* currentRow and currentCol keep the 0-based values of the code.          *)
(***************************************************************************)
EXTENDS Integers, Sequences, FiniteSets, TLC

VARIABLES
    answer,         \* state.answer
    guesses,        \* state.guesses
    evaluations,    \* state.evaluations
    currentRow,     \* state.currentRow
    currentCol,     \* state.currentCol
    status,         \* state.status
    keyStates,      \* state.keyStates
    developerMode,  \* state.developerMode
    statusMessage,  \* statusEl.textContent
    storage,        \* localStorage[STORAGE_KEY]
    today,          \* the local calendar day, as a day number
    sGuess,         \* scoring harness: the guess handed to scoreGuess
    sAnswer,        \* scoring harness: the answer handed to scoreGuess
    sResult,        \* scoring harness: what scoreGuess returned
    storageFails,   \* localStorage.setItem throws (quota exceeded, storage denied)
    uncaught,       \* an exception left the handler that ran last
    pc,             \* "loading" until init() has run, then "ready"
    hHints,         \* hint harness: the mapping handed to updateKeyboardStates
    hApplied,       \* hint harness: how many times it has been applied
    createdOn       \* the day on which createNewState() made the state in use,
                    \* followed by the specification of the days only

gameVars == <<answer, guesses, evaluations, currentRow, currentCol, status,
              keyStates, developerMode>>
scoreVars == <<sGuess, sAnswer, sResult>>
hintVars == <<hHints, hApplied>>
vars == <<answer, guesses, evaluations, currentRow, currentCol, status,
          keyStates, developerMode, statusMessage, storage, today,
          sGuess, sAnswer, sResult, storageFails, uncaught, pc,
          hHints, hApplied, createdOn>>

----------------------------------------------------------------------------
(* Program constants *)

MAX_ROWS == 6
WORD_LENGTH == 5

(* Bounds of the model *)

\* The calendar runs over the days 0 .. MaxDay.
MaxDay == 1

----------------------------------------------------------------------------
(* Characters and case conversion *)

LowerChars == <<"a", "c", "d", "e", "n", "p", "r", "s", "t", "v", "x">>
UpperChars == <<"A", "C", "D", "E", "N", "P", "R", "S", "T", "V", "X">>

CharIndex(chars, c) == CHOOSE i \in 1..Len(chars) : chars[i] = c

\* String.prototype.toUpperCase on one character.
toUpperCase(c) ==
    IF \E i \in 1..Len(LowerChars) : LowerChars[i] = c
    THEN UpperChars[CharIndex(LowerChars, c)]
    ELSE c

\* String.prototype.toLowerCase on one character.
toLowerCase(c) ==
    IF \E i \in 1..Len(UpperChars) : UpperChars[i] = c
    THEN LowerChars[CharIndex(UpperChars, c)]
    ELSE c

\* toUpperCase on a string.
toUpperCaseWord(w) == [i \in 1..Len(w) |-> toUpperCase(w[i])]

----------------------------------------------------------------------------
(* The Word Source (dictionary.js) *)

CRANE == <<"C", "R", "A", "N", "E">>
ERASE == <<"E", "R", "A", "S", "E">>
TRACE == <<"T", "R", "A", "C", "E">>
SPEED == <<"S", "P", "E", "E", "D">>
CRAXE == <<"C", "R", "A", "X", "E">>
ASDEV == <<"A", "S", "D", "E", "V">>

\* ANSWER_WORDS, in the order of the list.
ANSWER_WORDS == <<CRANE, ERASE>>

\* The accepted guesses.
ValidWords == {CRANE, ERASE, SPEED}

\* isValidGuess(word): true iff word is an accepted entry (case-insensitive).
isValidGuess(word) == toUpperCaseWord(word) \in ValidWords

\* getRandomAnswer(): the answer of the day, a function of the date alone.
getRandomAnswer(day) == ANSWER_WORDS[(day % Len(ANSWER_WORDS)) + 1]

----------------------------------------------------------------------------
(* The Scoring Engine *)

RECURSIVE getLetterCountsFrom(_, _, _)
\* The reduce of getLetterCounts from index i on: acc[letter] = (acc[letter] || 0) + 1.
getLetterCountsFrom(word, i, acc) ==
    IF i > Len(word) THEN acc
    ELSE LET letter == word[i]
             old == IF letter \in DOMAIN acc THEN acc[letter] ELSE 0
         IN  getLetterCountsFrom(word, i + 1,
                 [l \in DOMAIN acc \cup {letter} |->
                     IF l = letter THEN old + 1 ELSE acc[l]])

\* getLetterCounts(word): an object whose keys are the letters of word.
\* (Mutant: the reduce forgets the + 1.)
getLetterCounts_noIncrement(word) == [l \in {word[i] : i \in 1..Len(word)} |-> 0]
getLetterCounts(word) == getLetterCountsFrom(word, 1, <<>>)

\* remainingCounts[letter] > 0, false for a key the object does not have.
HasRemaining(counts, letter) == letter \in DOMAIN counts /\ counts[letter] > 0

\* remainingCounts[letter] -= 1 on a key the object has.
Decrement(counts, letter) == [counts EXCEPT ![letter] = @ - 1]

\* One iteration of the first loop, at the 0-based position i.
\* (Mutant: the first loop marks nothing.)
Pass1Step_never(guess, ans, st, i) == st
Pass1Step(guess, ans, st, i) ==
    IF guess[i + 1] = ans[i + 1]
    THEN [result |-> [st.result EXCEPT ![i + 1] = "correct"],
          remainingCounts |-> Decrement(st.remainingCounts, guess[i + 1])]
    ELSE st

\* One iteration of the second loop, at the 0-based position i.
\* (Mutant: a present mark does not consume the remaining count.)
Pass2Step_noDecrement(guess, st, i) ==
    IF st.result[i + 1] = "correct" THEN st
    ELSE IF HasRemaining(st.remainingCounts, guess[i + 1])
         THEN [st EXCEPT !.result[i + 1] = "present"]
         ELSE st
Pass2Step(guess, st, i) ==
    IF st.result[i + 1] = "correct" THEN st
    ELSE LET letter == guess[i + 1]
         IN  IF HasRemaining(st.remainingCounts, letter)
             THEN [result |-> [st.result EXCEPT ![i + 1] = "present"],
                   remainingCounts |-> Decrement(st.remainingCounts, letter)]
             ELSE st

RECURSIVE Pass1(_, _, _, _)
\* for (let i = 0; i < WORD_LENGTH; i += 1), the first loop.
Pass1(guess, ans, st, i) ==
    IF i < WORD_LENGTH
    THEN Pass1(guess, ans, Pass1Step(guess, ans, st, i), i + 1)
    ELSE st

RECURSIVE Pass2_backward(_, _, _)
\* (Mutant: the second loop scans from the right.)
Pass2_backward(guess, st, i) ==
    IF i < WORD_LENGTH
    THEN Pass2_backward(guess, Pass2Step(guess, st, WORD_LENGTH - 1 - i), i + 1)
    ELSE st
RECURSIVE Pass2(_, _, _)
\* for (let i = 0; i < WORD_LENGTH; i += 1), the second loop.
Pass2(guess, st, i) ==
    IF i < WORD_LENGTH
    THEN Pass2(guess, Pass2Step(guess, st, i), i + 1)
    ELSE st

\* scoreGuess(guess, answer).
scoreGuess(guess, ans) ==
    LET start == [result |-> [i \in 1..WORD_LENGTH |-> "absent"],
                  remainingCounts |-> getLetterCounts(ans)]
    IN  Pass2(guess, Pass1(guess, ans, start, 0), 0).result

----------------------------------------------------------------------------
(* The Keyboard Hint Aggregator *)

\* statePriority; a letter without a hint has none (its lookup is undefined).
statePriority(hint) ==
    CASE hint = "absent" -> 1
      [] hint = "present" -> 2
      [] hint = "correct" -> 3

\* The test of updateKeyboardStates:
\* !currentState || statePriority[newState] > statePriority[currentState].
\* (Mutant: the newest evaluation always replaces the hint.)
ShouldReplace_always(hints, keyLetter, newState) == TRUE
ShouldReplace(hints, keyLetter, newState) ==
    \/ keyLetter \notin DOMAIN hints
    \/ statePriority(newState) > statePriority(hints[keyLetter])

\* The callback of guessLetters.forEach, at the 0-based index.
UpdateKey(hints, guessLetters, scoredStates, index) ==
    LET newState == scoredStates[index + 1]
        keyLetter == toLowerCase(guessLetters[index + 1])
    IN  IF ShouldReplace(hints, keyLetter, newState)
        THEN [k \in DOMAIN hints \cup {keyLetter} |->
                 IF k = keyLetter THEN newState ELSE hints[k]]
        ELSE hints

RECURSIVE UpdateFrom(_, _, _, _)
\* guessLetters.forEach from the 0-based index on.
UpdateFrom(hints, guessLetters, scoredStates, index) ==
    IF index < Len(guessLetters)
    THEN UpdateFrom(UpdateKey(hints, guessLetters, scoredStates, index),
                    guessLetters, scoredStates, index + 1)
    ELSE hints

\* updateKeyboardStates(guessLetters, scoredStates), as a function of state.keyStates.
\* (Mutant: every test of the loop reads the hints as they were before the
\* loop, and the last letter that passes it is the one written.)
updateKeyboardStates_staleRead(hints, guessLetters, scoredStates) ==
    LET keyLetter(i) == toLowerCase(guessLetters[i])
        passing(k) == {i \in 1..Len(guessLetters) :
                          keyLetter(i) = k /\ ShouldReplace(hints, k, scoredStates[i])}
        last(S) == CHOOSE i \in S : \A j \in S : j <= i
    IN  [k \in DOMAIN hints \cup {keyLetter(i) : i \in 1..Len(guessLetters)} |->
            IF passing(k) = {} THEN hints[k] ELSE scoredStates[last(passing(k))]]
updateKeyboardStates(hints, guessLetters, scoredStates) ==
    UpdateFrom(hints, guessLetters, scoredStates, 0)

----------------------------------------------------------------------------
(* Game state, calendar and storage *)

EmptyRow == [c \in 1..WORD_LENGTH |-> ""]
EmptyEvaluation == [c \in 1..WORD_LENGTH |-> "empty"]

\* createNewState(answerOverride).
createNewState(answerOverride) ==
    [answer |-> answerOverride,
     guesses |-> [r \in 1..MAX_ROWS |-> EmptyRow],
     evaluations |-> [r \in 1..MAX_ROWS |-> EmptyEvaluation],
     currentRow |-> 0,
     currentCol |-> 0,
     status |-> "active",
     keyStates |-> <<>>,
     developerMode |-> FALSE]

\* The module-level variable state, as one record.
State ==
    [answer |-> answer, guesses |-> guesses, evaluations |-> evaluations,
     currentRow |-> currentRow, currentCol |-> currentCol, status |-> status,
     keyStates |-> keyStates, developerMode |-> developerMode]

\* The local dates of the days 0, 1, 2, ...: (getFullYear, getMonth, getDate).
Calendar ==
    <<[year |-> 2025, month |-> 11, date |-> 31],
      [year |-> 2026, month |-> 0, date |-> 1],
      [year |-> 2026, month |-> 0, date |-> 2],
      [year |-> 2026, month |-> 0, date |-> 3]>>

\* getLocalDayKey(date) for the date of day number day: year, month + 1, date.
getLocalDayKey(day) ==
    LET d == Calendar[day + 1]
    IN  <<d.year, d.month + 1, d.date>>

\* JSON.stringify of a payload, and JSON.parse of what it produced.
JSONstringify(payload) == [kind |-> "json", value |-> payload]
JSONparse(raw) == raw.value

\* The payload of persistState: {...state, dayKey: getLocalDayKey()}.
Payload(st, day) ==
    [answer |-> st.answer, guesses |-> st.guesses, evaluations |-> st.evaluations,
     currentRow |-> st.currentRow, currentCol |-> st.currentCol,
     status |-> st.status, keyStates |-> st.keyStates,
     developerMode |-> st.developerMode, dayKey |-> getLocalDayKey(day)]

\* What reading a property that the parsed record does not have gives.
undefined == "undefined"

\* parsed[field]
Field(parsed, field) ==
    IF field \in DOMAIN parsed THEN parsed[field] ELSE undefined

\* The first test of loadPersistedState: parsed.dayKey !== todayKey.
\* (Mutant: the day of the record is not looked at.)
DayKeyDiffers_never(parsed, day) == FALSE
DayKeyDiffers(parsed, day) ==
    \/ "dayKey" \notin DOMAIN parsed
    \/ parsed.dayKey # getLocalDayKey(day)

\* The second test of loadPersistedState: !parsed.answer.
NoAnswer(parsed) ==
    \/ "answer" \notin DOMAIN parsed
    \/ parsed.answer = <<>>

\* loadPersistedState() on day number day: the empty set for null, else the
\* state.  Nothing is in storage, or JSON.parse throws and the catch returns
\* null, or one of the two tests fails; the other properties are copied as
\* they are.
loadPersistedState(raw, day) ==
    IF raw.kind = "absent" THEN {}
    ELSE IF raw.kind # "json" THEN {}
    ELSE LET parsed == JSONparse(raw)
         IN  IF DayKeyDiffers(parsed, day) \/ NoAnswer(parsed)
             THEN {}
             ELSE {[answer |-> parsed.answer,
                    guesses |-> Field(parsed, "guesses"),
                    evaluations |-> Field(parsed, "evaluations"),
                    currentRow |-> Field(parsed, "currentRow"),
                    currentCol |-> Field(parsed, "currentCol"),
                    status |-> Field(parsed, "status"),
                    keyStates |-> IF "keyStates" \in DOMAIN parsed
                                  THEN parsed.keyStates ELSE <<>>,
                    developerMode |-> IF "developerMode" \in DOMAIN parsed
                                      THEN parsed.developerMode ELSE FALSE]}

\* The state in use is st.
StateIs(st) ==
    /\ answer = st.answer
    /\ guesses = st.guesses
    /\ evaluations = st.evaluations
    /\ currentRow = st.currentRow
    /\ currentCol = st.currentCol
    /\ status = st.status
    /\ keyStates = st.keyStates
    /\ developerMode = st.developerMode

\* state = st.
SetState(st) ==
    /\ answer' = st.answer
    /\ guesses' = st.guesses
    /\ evaluations' = st.evaluations
    /\ currentRow' = st.currentRow
    /\ currentCol' = st.currentCol
    /\ status' = st.status
    /\ keyStates' = st.keyStates
    /\ developerMode' = st.developerMode

\* persistState(), run on the state the handler leaves.
persistState == storage' = JSONstringify(Payload(State', today))

\* The tile loop of render() reads state.guesses[row][col] and
\* state.evaluations[row][col] for every row below MAX_ROWS: a missing row is
\* a TypeError.
RenderThrows(st) == Len(st.guesses) < MAX_ROWS \/ Len(st.evaluations) < MAX_ROWS

\* render(): the display is not modelled; its last statement is persistState(),
\* and an exception of either leaves render() and its caller.
render ==
    IF RenderThrows(State') \/ storageFails
    THEN /\ uncaught' = TRUE
         /\ UNCHANGED storage
    ELSE /\ uncaught' = FALSE
         /\ persistState

\* A handler that returns without calling render().
noRender ==
    /\ uncaught' = FALSE
    /\ UNCHANGED storage

\* setStatus(message).
setStatus(message) == statusMessage' = message

----------------------------------------------------------------------------
(* Input handling *)

\* /^[a-z]$/i.test(key)
IsLetterKey(key) ==
    \E i \in 1..Len(LowerChars) : key = LowerChars[i] \/ key = UpperChars[i]

\* state.guesses[state.currentRow].join('')
Join(row) == SelectSeq(row, LAMBDA cell : cell # "")

\* The guard of handleKeyInput: state.status !== 'active'.
\* (Mutant: the guard is missing.)
NotActive_never == FALSE
NotActive == status # "active"

\* The guard of submitGuess: state.currentCol < WORD_LENGTH.
RowIncomplete == currentCol < WORD_LENGTH

\* The loss test of submitGuess on the advanced row: state.currentRow >= MAX_ROWS.
\* (Mutant: the test is off by one.)
OutOfRows_early(row) == row >= MAX_ROWS - 1
OutOfRows(row) == row >= MAX_ROWS

\* toggleDeveloperMode().
toggleDeveloperMode ==
    /\ developerMode' = ~developerMode
    /\ guesses' = [guesses EXCEPT ![currentRow + 1] = EmptyRow]
    /\ evaluations' = [evaluations EXCEPT ![currentRow + 1] = EmptyEvaluation]
    /\ currentCol' = 0
    /\ setStatus(IF developerMode' THEN <<"Welcome developer.">>
                                   ELSE <<"Developer mode disabled.">>)
    /\ UNCHANGED <<answer, currentRow, status, keyStates>>
    /\ render

\* A rejected submission: setStatus(message), then return.
\* (Mutant: the rejection also clears the row.)
Reject_clearRow(message) ==
    /\ setStatus(message)
    /\ guesses' = [guesses EXCEPT ![currentRow + 1] = EmptyRow]
    /\ currentCol' = 0
    /\ UNCHANGED <<answer, evaluations, currentRow, status, keyStates,
                   developerMode>>
    /\ noRender
Reject(message) ==
    /\ setStatus(message)
    /\ UNCHANGED gameVars
    /\ noRender

\* Where submitGuess leaves the cursors and the status after a scored guess.
\* (Mutant: the loss test comes before the win test.)
AfterScored_lossFirst(guess) ==
    IF OutOfRows(currentRow + 1)
    THEN /\ currentRow' = currentRow + 1
         /\ currentCol' = 0
         /\ status' = "lost"
         /\ setStatus(<<"Game over. The word was ", toUpperCaseWord(answer), ".">>)
    ELSE IF guess = answer
    THEN /\ status' = "won"
         /\ setStatus(<<"You got it!">>)
         /\ UNCHANGED <<currentRow, currentCol>>
    ELSE /\ currentRow' = currentRow + 1
         /\ currentCol' = 0
         /\ status' = status
         /\ setStatus(<<"">>)
\* (Mutant: a guess that misses does not advance the row.)
AfterScored_noAdvance(guess) ==
    IF guess = answer
    THEN /\ status' = "won"
         /\ setStatus(<<"You got it!">>)
         /\ UNCHANGED <<currentRow, currentCol>>
    ELSE /\ currentRow' = currentRow
         /\ currentCol' = 0
         /\ status' = status
         /\ setStatus(<<"">>)
\* (Mutant: the column cursor is not reset when the row advances.)
AfterScored_keepCol(guess) ==
    IF guess = answer
    THEN /\ status' = "won"
         /\ setStatus(<<"You got it!">>)
         /\ UNCHANGED <<currentRow, currentCol>>
    ELSE /\ currentRow' = currentRow + 1
         /\ currentCol' = currentCol
         /\ IF OutOfRows(currentRow')
            THEN /\ status' = "lost"
                 /\ setStatus(<<"Game over. The word was ",
                                toUpperCaseWord(answer), ".">>)
            ELSE /\ status' = status
                 /\ setStatus(<<"">>)
AfterScored(guess) ==
    IF guess = answer
    THEN /\ status' = "won"
         /\ setStatus(<<"You got it!">>)
         /\ UNCHANGED <<currentRow, currentCol>>
    ELSE /\ currentRow' = currentRow + 1
         /\ currentCol' = 0
         /\ IF OutOfRows(currentRow')
            THEN /\ status' = "lost"
                 /\ setStatus(<<"Game over. The word was ",
                                toUpperCaseWord(answer), ".">>)
            ELSE /\ status' = status
                 /\ setStatus(<<"">>)

\* submitGuess().
submitGuess ==
    IF RowIncomplete
    THEN Reject(<<"Not enough letters.">>)
    ELSE LET guess == Join(guesses[currentRow + 1])
         IN  IF guess = ASDEV
             THEN toggleDeveloperMode
             ELSE IF ~isValidGuess(guess)
             THEN Reject(<<"Word is not in the list.">>)
             ELSE LET scored == scoreGuess(guess, answer)
                  IN  /\ evaluations' = [evaluations EXCEPT ![currentRow + 1] = scored]
                      /\ keyStates' = updateKeyboardStates(keyStates, guess, scored)
                      /\ AfterScored(guess)
                      /\ UNCHANGED <<answer, guesses, developerMode>>
                      /\ render

\* The letter branch of handleKeyInput.
\* (Mutant: the key is written as it was typed, in lower case.)
TypeLetter_asTyped(key) ==
    /\ IF currentCol < WORD_LENGTH
       THEN /\ guesses' = [guesses EXCEPT ![currentRow + 1][currentCol + 1] = key]
            /\ currentCol' = currentCol + 1
       ELSE UNCHANGED <<guesses, currentCol>>
    /\ UNCHANGED <<answer, evaluations, currentRow, status, keyStates,
                   developerMode, statusMessage>>
    /\ render
TypeLetter(key) ==
    /\ IF currentCol < WORD_LENGTH
       THEN /\ guesses' = [guesses EXCEPT
                              ![currentRow + 1][currentCol + 1] = toUpperCase(key)]
            /\ currentCol' = currentCol + 1
       ELSE UNCHANGED <<guesses, currentCol>>
    /\ UNCHANGED <<answer, evaluations, currentRow, status, keyStates,
                   developerMode, statusMessage>>
    /\ render

\* The backspace branch of handleKeyInput.
\* (Mutant: the branch returns without render(), so nothing is persisted.)
EraseLetter_noRender ==
    /\ IF currentCol > 0
       THEN /\ currentCol' = currentCol - 1
            /\ guesses' = [guesses EXCEPT ![currentRow + 1][currentCol'  + 1] = ""]
       ELSE UNCHANGED <<guesses, currentCol>>
    /\ UNCHANGED <<answer, evaluations, currentRow, status, keyStates,
                   developerMode, statusMessage>>
    /\ noRender
EraseLetter ==
    /\ IF currentCol > 0
       THEN /\ currentCol' = currentCol - 1
            /\ guesses' = [guesses EXCEPT ![currentRow + 1][currentCol'  + 1] = ""]
       ELSE UNCHANGED <<guesses, currentCol>>
    /\ UNCHANGED <<answer, evaluations, currentRow, status, keyStates,
                   developerMode, statusMessage>>
    /\ render

\* handleKeyInput(key).
handleKeyInput(key) ==
    IF NotActive
    THEN UNCHANGED <<gameVars, statusMessage>> /\ noRender
    ELSE IF IsLetterKey(key) THEN TypeLetter(key)
    ELSE IF toLowerCase(key) = "backspace" THEN EraseLetter
    ELSE IF toLowerCase(key) = "enter" THEN submitGuess
    ELSE UNCHANGED <<gameVars, statusMessage>> /\ noRender

\* What the player may answer to the prompt of startNewGame; CANCEL is null.
PromptChoices == {"CANCEL", "NEW", " same", "YES"}

\* choice.trim().toUpperCase()
NormalizeChoice(choice) ==
    CASE choice \in {"NEW", " new "} -> "NEW"
      [] choice \in {"SAME", " same"} -> "SAME"
      [] OTHER -> choice

\* The state startNewGame() puts in place: createNewState(selectedAnswer) with
\* the developerMode of the state it replaces.
\* (Mutant: the hints of the keyboard are kept as well.)
NewGameState_keepHints(selectedAnswer) ==
    [createNewState(selectedAnswer) EXCEPT
        !.developerMode = developerMode, !.keyStates = keyStates]
NewGameState(selectedAnswer) ==
    LET keepDeveloperMode == developerMode
    IN  [createNewState(selectedAnswer) EXCEPT !.developerMode = keepDeveloperMode]

\* startNewGame(), the player answering choice; picked is what
\* getRandomAnswerWord() draws.
startNewGame(choice, picked) ==
    IF choice = "CANCEL"
    THEN /\ setStatus(<<"New game cancelled.">>)
         /\ UNCHANGED gameVars
         /\ noRender
    ELSE LET normalizedChoice == NormalizeChoice(choice)
         IN  IF normalizedChoice # "NEW" /\ normalizedChoice # "SAME"
             THEN /\ setStatus(<<"Please type NEW or SAME.">>)
                  /\ UNCHANGED gameVars
                  /\ noRender
             ELSE LET selectedAnswer == IF normalizedChoice = "NEW"
                                        THEN picked
                                        ELSE getRandomAnswer(today)
                  IN  /\ SetState(NewGameState(selectedAnswer))
                      /\ setStatus(IF normalizedChoice = "NEW"
                                   THEN <<"New game started with a random word.">>
                                   ELSE <<"New game started with today's word.">>)
                      /\ render

\* The module body and init() of a page load on day number day, with raw in
\* storage: the state in use and the status message.
init(raw, day) ==
    LET persisted == loadPersistedState(raw, day)
        restored == CHOOSE st \in persisted : TRUE
    IN  IF persisted # {}
        THEN [state |-> restored,
              message |-> IF restored.status = "active"
                          THEN <<"Restored your game.">>
                          ELSE <<"Restored completed game.">>]
        ELSE [state |-> createNewState(getRandomAnswer(day)),
              message |-> <<"Guess the Wordle in 6 tries.">>]

----------------------------------------------------------------------------
(* The game: key events, new-game requests, page loads and the calendar *)

\* The letter keys of keyboardLayout that the model uses.
LetterKeys == {LowerChars[i] : i \in 1..Len(LowerChars)}

\* The words the player types: the accepted guesses, a word that is not in the
\* list, and the developer code.
TypedWords == ValidWords \cup {CRAXE, ASDEV}

\* The letters typed keep the current row a prefix of a word of TypedWords.
Typable(key) ==
    IF status # "active" \/ currentCol >= WORD_LENGTH
    THEN TRUE
    ELSE \E w \in TypedWords :
            /\ \A i \in 1..currentCol : w[i] = guesses[currentRow + 1][i]
            /\ w[currentCol + 1] = toUpperCase(key)

Letter ==
    /\ \E key \in LetterKeys : Typable(key) /\ handleKeyInput(key)
    /\ UNCHANGED <<today, storageFails, pc, scoreVars, hintVars, createdOn>>

Backspace ==
    /\ handleKeyInput("backspace")
    /\ UNCHANGED <<today, storageFails, pc, scoreVars, hintVars, createdOn>>

Enter ==
    /\ handleKeyInput("enter")
    /\ UNCHANGED <<today, storageFails, pc, scoreVars, hintVars, createdOn>>

\* What getRandomAnswerWord() can draw: any entry of ANSWER_WORDS.  Only the
\* choice NEW reads it.
Picks(choice) ==
    IF NormalizeChoice(choice) = "NEW"
    THEN {ANSWER_WORDS[i] : i \in 1..Len(ANSWER_WORDS)}
    ELSE {ANSWER_WORDS[1]}

NewGame ==
    /\ \E choice \in PromptChoices :
          \E picked \in Picks(choice) : startNewGame(choice, picked)
    /\ UNCHANGED <<today, storageFails, pc, scoreVars, hintVars, createdOn>>

\* A page load: the module body, then init().
PageLoad ==
    /\ LET r == init(storage, today)
       IN  /\ SetState(r.state)
           /\ setStatus(r.message)
    /\ render

\* The page is loaded again.
Reload ==
    /\ PageLoad
    /\ UNCHANGED <<today, storageFails, pc, scoreVars, hintVars, createdOn>>

\* Midnight passes.
AdvanceDay ==
    /\ today < MaxDay
    /\ today' = today + 1
    /\ UNCHANGED <<gameVars, statusMessage, storage, storageFails, uncaught,
                   pc, scoreVars, hintVars, createdOn>>

\* The first page load, on day 0 with nothing in storage; fails tells whether
\* the storage refuses writes, and then the render() of init() throws.
FirstLoad(fails) ==
    LET r == init([kind |-> "absent"], 0)
    IN  /\ today = 0
        /\ StateIs(r.state)
        /\ statusMessage = r.message
        /\ storageFails = fails
        /\ uncaught = fails
        /\ storage = IF fails THEN [kind |-> "absent"]
                              ELSE JSONstringify(Payload(r.state, 0))
        /\ pc = "ready"
        /\ createdOn = 0

\* The first page load with a storage that works.
InitGame == FirstLoad(FALSE)

\* The harnesses are idle while the game runs.
ScoreIdle ==
    /\ sGuess = <<>>
    /\ sAnswer = <<>>
    /\ sResult = <<>>
HintsIdle ==
    /\ hHints = <<>>
    /\ hApplied = 0

Init ==
    /\ InitGame
    /\ ScoreIdle
    /\ HintsIdle

Next == Letter \/ Backspace \/ Enter \/ NewGame \/ Reload \/ AdvanceDay

Spec == Init /\ [][Next]_vars

----------------------------------------------------------------------------
(* The scoring function on its own *)

\* Every pair of five-letter words over three letters, and every guess without
\* a repeated letter over seven letters against two answers without one.
ScoreChars == {"A", "C", "E"}
DistinctChars == {"A", "C", "E", "N", "R", "S", "T"}
Distinct(w) == \A i, j \in 1..Len(w) : i # j => w[i] # w[j]
ScoreInputs ==
    ([1..WORD_LENGTH -> ScoreChars] \X [1..WORD_LENGTH -> ScoreChars])
    \cup ({w \in [1..WORD_LENGTH -> DistinctChars] : Distinct(w)} \X {CRANE, TRACE})

InitScore ==
    /\ InitGame
    /\ HintsIdle
    /\ sResult = <<>>
    /\ \E in \in ScoreInputs : sGuess = in[1] /\ sAnswer = in[2]

Score ==
    /\ sResult = <<>>
    /\ sResult' = scoreGuess(sGuess, sAnswer)
    /\ UNCHANGED <<gameVars, statusMessage, storage, today, sGuess, sAnswer,
                   storageFails, uncaught, pc, hintVars, createdOn>>

NextScore == Score

SpecScore == InitScore /\ [][NextScore]_vars

----------------------------------------------------------------------------
(* The game with the day of creation of each state followed *)

\* startNewGame(): createNewState(selectedAnswer) runs today when the player
\* answers NEW or SAME.
NewGameTracked ==
    /\ \E choice \in PromptChoices :
          /\ \E picked \in Picks(choice) : startNewGame(choice, picked)
          /\ createdOn' = IF NormalizeChoice(choice) \in {"NEW", "SAME"}
                          THEN today
                          ELSE createdOn
    /\ UNCHANGED <<today, storageFails, pc, scoreVars, hintVars>>

\* A page load: the state of the module body, made today by createNewState(),
\* stays in use unless init() replaces it by the persisted one.
ReloadTracked ==
    /\ PageLoad
    /\ createdOn' = IF loadPersistedState(storage, today) = {}
                    THEN today
                    ELSE createdOn
    /\ UNCHANGED <<today, storageFails, pc, scoreVars, hintVars>>

NextDays ==
    Letter \/ Backspace \/ Enter \/ NewGameTracked \/ ReloadTracked \/ AdvanceDay

SpecDays == Init /\ [][NextDays]_vars

----------------------------------------------------------------------------
(* The game on a storage that refuses every write *)

\* The first page load with localStorage.setItem throwing (the quota is
\* exceeded): the same events follow.
InitFail ==
    /\ FirstLoad(TRUE)
    /\ ScoreIdle
    /\ HintsIdle

SpecFail == InitFail /\ [][Next]_vars

----------------------------------------------------------------------------
(* Start-up on whatever the storage holds *)

\* The rows a stored game has played, at most.
MaxPlayed == 2

\* The game on answer after played guesses of SPEED and typed letters of the
\* answer in the next row.
SnapshotActive(answerWord, played, typed) ==
    LET scored == scoreGuess(SPEED, answerWord)
    IN  [answer |-> answerWord,
         guesses |-> [r \in 1..MAX_ROWS |->
                        IF r <= played THEN SPEED
                        ELSE IF r = played + 1
                        THEN [c \in 1..WORD_LENGTH |->
                                 IF c <= typed THEN answerWord[c] ELSE ""]
                        ELSE EmptyRow],
         evaluations |-> [r \in 1..MAX_ROWS |->
                            IF r <= played THEN scored ELSE EmptyEvaluation],
         currentRow |-> played,
         currentCol |-> typed,
         status |-> "active",
         keyStates |-> IF played = 0 THEN <<>>
                       ELSE updateKeyboardStates(<<>>, SPEED, scored),
         developerMode |-> FALSE]

\* The game on answer won after played guesses of SPEED.
SnapshotWon(answerWord, played) ==
    LET before == SnapshotActive(answerWord, played, WORD_LENGTH)
        scored == scoreGuess(answerWord, answerWord)
    IN  [before EXCEPT
            !.evaluations[played + 1] = scored,
            !.status = "won",
            !.keyStates = updateKeyboardStates(before.keyStates, answerWord, scored)]

\* States of the game that persistState() has written.
Snapshots ==
    LET answers == {ANSWER_WORDS[i] : i \in 1..Len(ANSWER_WORDS)}
    IN  {SnapshotActive(a, n, typed) :
            a \in answers, n \in 0..MaxPlayed, typed \in {0, 2}}
        \cup {SnapshotWon(a, n) : a \in answers, n \in 0..MaxPlayed}

\* Records that are not what persistState() writes: today's record of a new
\* game with a property missing, emptied or out of its range.
DamagedRecords(day) ==
    LET payload == Payload(createNewState(getRandomAnswer(day)), day)
        without(field) == [f \in DOMAIN payload \ {field} |-> payload[f]]
    IN  {without("answer"),
         without("dayKey"),
         without("status"),
         [payload EXCEPT !.answer = <<>>],
         [payload EXCEPT !.guesses = <<>>],
         [payload EXCEPT !.evaluations = <<>>],
         [payload EXCEPT !.currentRow = MAX_ROWS + 3],
         [payload EXCEPT !.currentCol = WORD_LENGTH + 2],
         [payload EXCEPT !.status = "paused"]}

\* What localStorage.getItem(STORAGE_KEY) may return on day number day:
\* nothing, text that is not JSON, a snapshot written on some day, or a
\* damaged record.
StoredRecords(day) ==
    {[kind |-> "absent"], [kind |-> "garbage"]}
    \cup {JSONstringify(Payload(st, written)) :
             st \in Snapshots, written \in 0..MaxDay}
    \cup {JSONstringify(payload) : payload \in DamagedRecords(day)}

\* The module body has run on some day (state = createNewState()), init() has
\* not; the storage holds any record and may refuse writes.
InitBoot ==
    /\ today \in 0..MaxDay
    /\ storage \in StoredRecords(today)
    /\ storageFails \in BOOLEAN
    /\ uncaught = FALSE
    /\ pc = "loading"
    /\ createdOn = today
    /\ StateIs(createNewState(getRandomAnswer(today)))
    /\ statusMessage = <<"">>
    /\ ScoreIdle
    /\ HintsIdle

\* init() runs.
Boot ==
    /\ pc = "loading"
    /\ pc' = "ready"
    /\ PageLoad
    /\ UNCHANGED <<today, storageFails, scoreVars, hintVars, createdOn>>

NextBoot == Boot

SpecBoot == InitBoot /\ [][NextBoot]_vars

----------------------------------------------------------------------------
(* The scoring function on words in either letter case *)

\* A word as a caller may supply it: in upper case, in lower case, or with
\* its first letter only in upper case.
CaseForms(w) ==
    {w,
     [i \in 1..Len(w) |-> toLowerCase(w[i])],
     [i \in 1..Len(w) |-> IF i = 1 THEN w[i] ELSE toLowerCase(w[i])]}

CaseInputs ==
    LET forms == UNION {CaseForms(w) : w \in {CRANE, ERASE, TRACE, SPEED}}
    IN  forms \X forms

InitCase ==
    /\ InitGame
    /\ HintsIdle
    /\ sResult = <<>>
    /\ \E in \in CaseInputs : sGuess = in[1] /\ sAnswer = in[2]

SpecCase == InitCase /\ [][NextScore]_vars

----------------------------------------------------------------------------
(* The hint update on its own *)

\* How many times the harness applies updateKeyboardStates to one scored guess.
MaxApplied == 2

\* Every hint mapping over the keys a and e, and every pair of five-letter
\* words over A and E as the guess and the answer.
HintChars == {"A", "E"}
HintStates == {"absent", "present", "correct"}
HintMaps ==
    UNION {[keys -> HintStates] : keys \in SUBSET {toLowerCase(c) : c \in HintChars}}

InitHints ==
    /\ InitGame
    /\ sResult = <<>>
    /\ sGuess \in [1..WORD_LENGTH -> HintChars]
    /\ sAnswer \in [1..WORD_LENGTH -> HintChars]
    /\ hHints \in HintMaps
    /\ hApplied = 0

\* updateKeyboardStates([...guess], scored) on the mapping of the harness.
ApplyHints ==
    /\ sResult # <<>>
    /\ hApplied < MaxApplied
    /\ hHints' = updateKeyboardStates(hHints, sGuess, sResult)
    /\ hApplied' = hApplied + 1
    /\ UNCHANGED <<gameVars, statusMessage, storage, today, scoreVars,
                   storageFails, uncaught, pc, createdOn>>

NextHints == Score \/ ApplyHints

SpecHints == InitHints /\ [][NextHints]_vars

----------------------------------------------------------------------------
(* Properties of the scoring function *)

Positions == 1..WORD_LENGTH
Scored == sResult # <<>>
\* The number of occurrences of letter in word.
Occurrences(word, letter) == Cardinality({i \in Positions : word[i] = letter})
\* The positions of the guess that hold letter and carry mark.
MarkedAs(letter, mark) ==
    {i \in Positions : sGuess[i] = letter /\ sResult[i] = mark}
LettersOf(word) == {word[i] : i \in Positions}

\* C1: for every letter, the positions of the guess marked correct or present
\* for it are at most as many as its occurrences in the answer, and every
\* other position is marked absent.
C1_MarksBoundedByAnswer ==
    Scored =>
        /\ \A i \in Positions : sResult[i] \in {"correct", "present", "absent"}
        /\ \A l \in LettersOf(sGuess) :
              Cardinality(MarkedAs(l, "correct") \cup MarkedAs(l, "present"))
                  <= Occurrences(sAnswer, l)

\* C1 witness: a letter twice in the guess and once in the answer, one
\* occurrence marked and the other absent.
C1_Witness ==
    /\ Scored
    /\ \E l \in LettersOf(sGuess) :
          /\ Occurrences(sGuess, l) = 2
          /\ Occurrences(sAnswer, l) = 1
          /\ Cardinality(MarkedAs(l, "correct") \cup MarkedAs(l, "present")) = 1
          /\ Cardinality(MarkedAs(l, "absent")) = 1

\* C2: a position is correct exactly when guess and answer agree there; the
\* present marks of a letter never exceed what its positional matches leave of
\* the answer's count; and no absent mark of a letter lies to the left of a
\* present mark of the same letter.
C2_CorrectFirstThenLeftmost ==
    Scored =>
        /\ \A i \in Positions : (sResult[i] = "correct") <=> (sGuess[i] = sAnswer[i])
        /\ \A l \in LettersOf(sGuess) :
              Cardinality(MarkedAs(l, "present"))
                  <= Occurrences(sAnswer, l) - Cardinality(MarkedAs(l, "correct"))
        /\ \A i, j \in Positions :
              (i < j /\ sGuess[i] = sGuess[j])
                  => ~(sResult[i] = "absent" /\ sResult[j] = "present")

\* C2 witness: one letter three times in the guess, marked present, then
\* absent, then correct.
C2_Witness ==
    /\ Scored
    /\ \E i, j, k \in Positions :
          /\ i < j /\ j < k
          /\ sGuess[i] = sGuess[j] /\ sGuess[j] = sGuess[k]
          /\ sResult[i] = "present" /\ sResult[j] = "absent" /\ sResult[k] = "correct"

\* The simple rule: positional equality, else membership, else absent.
SimpleRule(i) ==
    IF sGuess[i] = sAnswer[i] THEN "correct"
    ELSE IF sGuess[i] \in LettersOf(sAnswer) THEN "present"
    ELSE "absent"

\* C3: when neither the guess nor the answer repeats a letter, every position
\* carries the mark of the simple rule.
C3_SimpleRuleWithoutRepeats ==
    (Scored /\ Distinct(sGuess) /\ Distinct(sAnswer))
        => \A i \in Positions : sResult[i] = SimpleRule(i)

\* C3 witness: a scored pair without repeated letters that shows all three marks.
C3_Witness ==
    /\ Scored /\ Distinct(sGuess) /\ Distinct(sAnswer)
    /\ \A mark \in {"correct", "present", "absent"} :
          \E i \in Positions : sResult[i] = mark

\* C4, as amended: TRACE scored against CRANE is
\* [absent, correct, correct, present, correct].
C4_TraceAgainstCrane ==
    (Scored /\ sGuess = TRACE /\ sAnswer = CRANE)
        => sResult = <<"absent", "correct", "correct", "present", "correct">>

\* C4 witness: TRACE has been scored against CRANE.
C4_Witness == Scored /\ sGuess = TRACE /\ sAnswer = CRANE

\* C4 as the specification states it: TRACE scored against CRANE is
\* [absent, correct, present, absent, correct].
C4_AsStated ==
    (Scored /\ sGuess = TRACE /\ sAnswer = CRANE)
        => sResult = <<"absent", "correct", "present", "absent", "correct">>

----------------------------------------------------------------------------
(* Properties of the game state machine *)

\* The word of the current row; read only while the game is active.
CurrentWord == Join(guesses[currentRow + 1])
AllCorrect == [c \in 1..WORD_LENGTH |-> "correct"]
KeyEvent == Letter \/ Backspace \/ Enter
\* The rows that carry a score.
ScoredRows == {r \in 1..MAX_ROWS : evaluations[r] # EmptyEvaluation}

\* The current row is full and holds an accepted word that is not the
\* developer code: enter scores it.
Submittable ==
    /\ status = "active"
    /\ currentCol = WORD_LENGTH
    /\ CurrentWord # ASDEV
    /\ isValidGuess(CurrentWord)

\* C5: while the game is active, enter on a full valid row whose word is the
\* answer stores an all-correct evaluation for that row and sets status to
\* won, on every row; and status becomes won by no other step.
C5_WinBySubmittingAnswer ==
    [][ /\ (Submittable /\ CurrentWord = answer /\ Enter)
            => /\ status' = "won"
               /\ evaluations'[currentRow + 1] = AllCorrect
        /\ (status' = "won" /\ status # "won")
            => (Submittable /\ CurrentWord = answer /\ Enter) ]_vars

\* C5 witness: the game was won on the last row.
C5_Witness ==
    /\ status = "won"
    /\ currentRow = MAX_ROWS - 1
    /\ evaluations[MAX_ROWS] = AllCorrect

\* C6: status becomes lost exactly by the valid non-matching submission made
\* on row 5, which leaves six scored rows and a status message that holds the
\* answer; and no state has more than six scored rows.
C6_LostOnSixthMiss ==
    /\ [][ /\ (status' = "lost" /\ status # "lost")
               => /\ Submittable /\ CurrentWord # answer /\ Enter
                  /\ currentRow = MAX_ROWS - 1
                  /\ Cardinality(ScoredRows') = MAX_ROWS
                  /\ Len(statusMessage') = 3 /\ statusMessage'[2] = answer'
           /\ (Submittable /\ CurrentWord # answer
                  /\ currentRow = MAX_ROWS - 1 /\ Enter)
               => status' = "lost" ]_vars
    /\ [](/\ Len(evaluations) <= MAX_ROWS
          /\ (status = "lost" => Cardinality(ScoredRows) = MAX_ROWS))

\* C6 witness: a lost game whose message reveals the answer.
C6_Witness ==
    /\ status = "lost"
    /\ statusMessage = <<"Game over. The word was ", answer, ".">>
    /\ Cardinality(ScoredRows) = MAX_ROWS

\* C7: in a terminal status no letter, backspace or enter event changes
\* guesses, evaluations, currentRow, currentCol, keyStates or status, and of
\* the events of the running page only a new-game request changes them.  (A
\* page load starts the program again.)
C7_TerminalFrozen ==
    [][ status # "active"
            => /\ KeyEvent => UNCHANGED <<guesses, evaluations, currentRow,
                                          currentCol, keyStates, status>>
               /\ (\/ UNCHANGED <<guesses, evaluations, currentRow, currentCol,
                                  keyStates, status>>
                   \/ NewGame
                   \/ Reload) ]_vars

\* C7 witness: a won game with rows left and letters in its last row.
C7_Witness ==
    /\ status = "won"
    /\ currentRow < MAX_ROWS - 1
    /\ currentCol = WORD_LENGTH

\* Enter is a valid submission that neither wins nor is made on the last row.
Advancing ==
    /\ Submittable
    /\ CurrentWord # answer
    /\ currentRow < MAX_ROWS - 1

\* C8: a valid submission that neither wins nor is made on the last row
\* raises currentRow by one, sets currentCol to 0 and leaves status active;
\* and no key event changes the letters or the evaluations of a row before
\* currentRow.
C8_RowAdvanceAndFrozenRows ==
    [][ /\ (Advancing /\ Enter)
            => /\ currentRow' = currentRow + 1
               /\ currentCol' = 0
               /\ status' = "active"
        /\ \/ \A r \in 1..currentRow :
                 /\ guesses'[r] = guesses[r]
                 /\ evaluations'[r] = evaluations[r]
           \/ ~KeyEvent ]_vars

\* C8 witness: two rows are scored and letters are typed in the third.
C8_Witness ==
    /\ status = "active"
    /\ currentRow = 2
    /\ currentCol = 3
    /\ \A r \in 1..2 : evaluations[r] # EmptyEvaluation /\ guesses[r] # EmptyRow

\* Enter is a submission the Word Source's validity check rejects, or one with
\* fewer than five letters.
Rejectable ==
    /\ status = "active"
    /\ \/ currentCol < WORD_LENGTH
       \/ ~isValidGuess(CurrentWord)

\* C9, as amended: enter with fewer than five letters, or with a full row whose
\* word is rejected by the validity check and is not the developer code ASDEV,
\* changes no field of the game state and not the stored snapshot.
C9_RejectionChangesNothing ==
    [][ (Rejectable /\ ~(currentCol = WORD_LENGTH /\ CurrentWord = ASDEV) /\ Enter)
            => UNCHANGED <<gameVars, storage>> ]_vars

\* C9 witness: a full row was rejected as not in the list and is still there.
C9_Witness ==
    /\ status = "active"
    /\ statusMessage = <<"Word is not in the list.">>
    /\ currentCol = WORD_LENGTH
    /\ CurrentWord = CRAXE

\* C9 as the specification states it: every rejected submission, whatever the
\* rejected word, changes none of guesses, evaluations, currentRow, currentCol,
\* status, keyStates and answer.
C9_AsStated ==
    [][ (Rejectable /\ Enter)
            => UNCHANGED <<guesses, evaluations, currentRow, currentCol, status,
                           keyStates, answer>> ]_vars

\* The rank of the hint of a key: absent < present < correct, none below all.
HintRank(hints, k) == IF k \in DOMAIN hints THEN statePriority(hints[k]) ELSE 0

\* C10: within one game no hint moves backward: over every step that is not a
\* new-game request or a page load, the rank of every key's hint does not
\* decrease.
C10_HintsNeverDowngrade ==
    [][ \/ \A k \in DOMAIN keyStates :
              /\ k \in DOMAIN keyStates'
              /\ HintRank(keyStates', k) >= HintRank(keyStates, k)
        \/ NewGame
        \/ Reload ]_vars

\* C10 witness: a letter whose hint is correct was marked lower by a later
\* guess than by an earlier one.
C10_Witness ==
    \E r1, r2 \in 1..MAX_ROWS : \E i, j \in 1..WORD_LENGTH :
        /\ r1 < r2
        /\ guesses[r1][i] = guesses[r2][j]
        /\ evaluations[r1][i] = "correct"
        /\ evaluations[r2][j] \in {"absent", "present"}
        /\ toLowerCase(guesses[r1][i]) \in DOMAIN keyStates
        /\ keyStates[toLowerCase(guesses[r1][i])] = "correct"

----------------------------------------------------------------------------
(* Properties of the hint update on its own *)

\* C11: the hint update is idempotent: whatever the hint mapping and the
\* scored guess, applying updateKeyboardStates with the same letters and
\* evaluations once more leaves the mapping as the first application left it.
C11_HintUpdateIdempotent ==
    [][hApplied >= 1 => hHints' = hHints]_vars

\* The update has been applied twice to a guess that repeats a letter, marked
\* correct at its first occurrence and absent at a later one.
C11_Witness ==
    /\ hApplied = 2
    /\ \E i, j \in Positions :
          /\ i < j
          /\ sGuess[i] = sGuess[j]
          /\ sResult[i] = "correct"
          /\ sResult[j] = "absent"
          /\ hHints[toLowerCase(sGuess[i])] = "correct"

----------------------------------------------------------------------------
(* Properties of start-up *)

\* The record in storage parses, carries today's day key and has an answer.
Restorable ==
    /\ storage.kind = "json"
    /\ "dayKey" \in DOMAIN storage.value
    /\ storage.value.dayKey = getLocalDayKey(today)
    /\ "answer" \in DOMAIN storage.value
    /\ storage.value.answer # <<>>

\* The state in use after the step is the one the record in storage describes.
RestoredFromRecord ==
    LET parsed == storage.value
    IN  /\ answer' = parsed.answer
        /\ guesses' = Field(parsed, "guesses")
        /\ evaluations' = Field(parsed, "evaluations")
        /\ currentRow' = Field(parsed, "currentRow")
        /\ currentCol' = Field(parsed, "currentCol")
        /\ status' = Field(parsed, "status")
        /\ statusMessage' \in {<<"Restored your game.">>,
                               <<"Restored completed game.">>}

\* The state in use after the step is a new game on today's word.
StartedFresh ==
    /\ State' = createNewState(getRandomAnswer(today))
    /\ currentRow' = 0
    /\ currentCol' = 0
    /\ \A r \in 1..MAX_ROWS : guesses'[r] = EmptyRow
    /\ status' = "active"
    /\ statusMessage' = <<"Guess the Wordle in 6 tries.">>

\* C12: on start-up the persisted record is restored only if it parses, its
\* dayKey is today's local day key and its answer is present; in every other
\* case (no record, text that does not parse, a record of another day, no
\* answer) it is discarded and the game starts from a freshly created state:
\* row 0, column 0, empty grid, status active.
C12_RestoreOnlyTodaysRecord ==
    [][pc = "loading"
          => IF Restorable THEN RestoredFromRecord ELSE StartedFresh]_vars

\* A record of an earlier day with a played row has been discarded: the game
\* is new, and the record is still in the storage, which refused the write.
C12_Witness ==
    /\ pc = "ready"
    /\ storageFails
    /\ storage.kind = "json"
    /\ "dayKey" \in DOMAIN storage.value
    /\ storage.value.dayKey # getLocalDayKey(today)
    /\ storage.value.currentRow > 0
    /\ State = createNewState(getRandomAnswer(today))

----------------------------------------------------------------------------
(* Invariants of the game *)

\* C13: in every reachable state of a game, active, won or lost, currentRow is
\* in 0..5 and currentCol is in 0..5.
C13_AsStated ==
    /\ currentRow \in 0..(MAX_ROWS - 1)
    /\ currentCol \in 0..WORD_LENGTH

\* Every evaluation of the 1-based row is absent, present or correct.
FullyEvaluated(r) ==
    \A c \in Positions : evaluations[r][c] \in {"absent", "present", "correct"}

\* C14, as the spec states it: every row with index below currentRow is fully
\* evaluated and every row with index at or above currentRow has an
\* evaluation that is all empty.
C14_AsStated ==
    \A r \in 1..MAX_ROWS :
        IF r - 1 < currentRow
        THEN FullyEvaluated(r)
        ELSE evaluations[r] = EmptyEvaluation

\* C14: every row with index below currentRow is fully evaluated, and every
\* row with index at or above currentRow has an evaluation that is all empty,
\* except the row at currentRow of a won game, which is all correct.
C14_EvaluatedBelowCursor ==
    \A r \in 1..MAX_ROWS :
        IF r - 1 < currentRow
        THEN FullyEvaluated(r)
        ELSE IF status = "won" /\ r - 1 = currentRow
        THEN evaluations[r] = AllCorrect
        ELSE evaluations[r] = EmptyEvaluation

\* A game won on its third row: two evaluated rows below the cursor, the
\* winning row at the cursor, empty rows after it.
C14_Witness ==
    /\ status = "won"
    /\ currentRow = 2
    /\ evaluations[currentRow + 1] = AllCorrect
    /\ FullyEvaluated(1)
    /\ evaluations[currentRow + 2] = EmptyEvaluation

\* The single upper-case letters.
UpperLetters == {UpperChars[i] : i \in 1..Len(UpperChars)}

\* The row at the cursor holds a letter in each of its first currentCol cells
\* and nothing after them, and the later rows hold nothing.
CursorRowShape ==
    \A r \in 1..MAX_ROWS : \A c \in Positions :
        IF r - 1 = currentRow /\ c <= currentCol
        THEN guesses[r][c] \in UpperLetters
        ELSE r - 1 >= currentRow => guesses[r][c] = ""

\* C15: in every reachable state the first currentCol cells of row currentRow
\* hold a single upper-case letter each, and the other cells of that row and
\* all cells of later rows are empty strings; a letter event writes an
\* upper-case letter at currentCol and increments it when currentCol < 5, a
\* backspace event decrements currentCol and clears that cell when
\* currentCol > 0, and either leaves the state as it is otherwise.  (Neither
\* event writes the status line, so the steps that do are passed over first.)
C15_TypingKeepsRowShape ==
    /\ []CursorRowShape
    /\ [][ \/ statusMessage' # statusMessage
           \/ /\ (status = "active" /\ currentCol < WORD_LENGTH /\ Letter)
                  => /\ currentCol' = currentCol + 1
                     /\ \E letter \in UpperLetters :
                           guesses' = [guesses EXCEPT
                                          ![currentRow + 1][currentCol + 1] = letter]
                     /\ UNCHANGED <<answer, evaluations, currentRow, status,
                                    keyStates, developerMode>>
              /\ (currentCol >= WORD_LENGTH /\ Letter) => UNCHANGED gameVars
              /\ (status = "active" /\ currentCol > 0 /\ Backspace)
                  => /\ currentCol' = currentCol - 1
                     /\ guesses' = [guesses EXCEPT
                                       ![currentRow + 1][currentCol] = ""]
                     /\ UNCHANGED <<answer, evaluations, currentRow, status,
                                    keyStates, developerMode>>
              /\ (currentCol = 0 /\ Backspace) => UNCHANGED gameVars ]_vars

\* Three letters typed in the second row of a game in progress.
C15_Witness ==
    /\ status = "active"
    /\ currentRow = 1
    /\ currentCol = 3
    /\ \A c \in 1..3 : guesses[2][c] \in UpperLetters
    /\ guesses[2][4] = ""

----------------------------------------------------------------------------
(* New games *)

\* What startNewGame() writes in the status line.
StartedMessages ==
    {<<"New game started with a random word.">>,
     <<"New game started with today's word.">>}
DeclinedMessages ==
    {<<"New game cancelled.">>, <<"Please type NEW or SAME.">>}

\* C16, as the spec states it, for the requests that start a game (the
\* player answers NEW or SAME): the request, in a terminal state or an active
\* one, replaces the entire game state with a freshly created one: every
\* field is that of a new state for the chosen answer, developerMode false
\* included, and nothing is carried over.
C16_AsStated ==
    [][(statusMessage' \in StartedMessages /\ NewGame)
          => State' = createNewState(answer')]_vars

\* C16: a new-game request that the player answers with NEW or SAME replaces
\* the game state with a freshly created one for the chosen answer, except
\* developerMode, which is carried over; a request that is cancelled or
\* answered otherwise leaves the game state as it is.
C16_NewGameKeepsDeveloperMode ==
    [][ /\ (statusMessage' \in StartedMessages /\ NewGame)
           => /\ State' = [createNewState(answer') EXCEPT
                              !.developerMode = developerMode]
              /\ answer' \in {ANSWER_WORDS[i] : i \in 1..Len(ANSWER_WORDS)}
              /\ statusMessage' = <<"New game started with today's word.">>
                    => answer' = getRandomAnswer(today)
        /\ (statusMessage' \in DeclinedMessages /\ NewGame)
           => UNCHANGED gameVars ]_vars

\* A new game has just been started by a player in developer mode.
C16_Witness ==
    /\ statusMessage \in StartedMessages
    /\ developerMode
    /\ State = [createNewState(answer) EXCEPT !.developerMode = TRUE]

----------------------------------------------------------------------------
(* Persistence *)

\* The record in storage holds the answer, guesses, evaluations, cursors,
\* status and hints of the state in use.
SnapshotIsCurrent ==
    /\ storage.kind = "json"
    /\ LET record == JSONparse(storage)
       IN  /\ record.answer = answer
           /\ record.guesses = guesses
           /\ record.evaluations = evaluations
           /\ record.currentRow = currentRow
           /\ record.currentCol = currentCol
           /\ record.status = status
           /\ record.keyStates = keyStates

\* What init() writes in the status line.
LoadMessages ==
    {<<"Restored your game.">>, <<"Restored completed game.">>,
     <<"Guess the Wordle in 6 tries.">>}

\* C17: a snapshot is written after every state mutation: once an input event
\* (letter, backspace, enter, new game) has been handled, the persisted
\* record holds exactly the answer, guesses, evaluations, currentRow,
\* currentCol, status and keyStates in memory, so that a reload on the
\* calendar day of the record restores a state equal to the one before it.
C17_SnapshotAfterEveryMutation ==
    /\ []SnapshotIsCurrent
    /\ [][(/\ statusMessage' \in LoadMessages
           /\ JSONparse(storage).dayKey = getLocalDayKey(today)
           /\ Reload)
             => State' = State]_vars

\* Two letters typed in the second row, and the record holds them.
C17_Witness ==
    /\ currentRow = 1
    /\ currentCol = 2
    /\ keyStates # <<>>
    /\ JSONparse(storage).currentCol = 2
    /\ JSONparse(storage).guesses[2] = guesses[2]
    /\ JSONparse(storage).dayKey = getLocalDayKey(today)

\* C18: a failure of an external collaborator never blocks or fails core
\* gameplay: when the write to storage fails while an input event is handled,
\* the failure is swallowed by the calling layer, so no exception leaves the
\* handler and what follows the write in the handler runs as if the write
\* had succeeded.
C18_AsStated ==
    [][(KeyEvent \/ NewGame) => ~uncaught']_vars

----------------------------------------------------------------------------
(* Letter case *)

\* C19: scoring is case-insensitive: for every guess and answer the
\* evaluation, and the win test guess = answer, are those of the two words
\* brought to a single case, whatever the case in which they are supplied.
C19_AsStated ==
    Scored =>
        /\ sResult = scoreGuess(toUpperCaseWord(sGuess), toUpperCaseWord(sAnswer))
        /\ (sGuess = sAnswer) = (toUpperCaseWord(sGuess) = toUpperCaseWord(sAnswer))

----------------------------------------------------------------------------
(* Damaged records *)

\* The state in use has the shape of the data model: six rows of five cells,
\* six evaluations of five marks, cursors in range and a status of the game.
WellFormed ==
    /\ Len(guesses) = MAX_ROWS
    /\ \A r \in 1..Len(guesses) : Len(guesses[r]) = WORD_LENGTH
    /\ Len(evaluations) = MAX_ROWS
    /\ \A r \in 1..Len(evaluations) : Len(evaluations[r]) = WORD_LENGTH
    /\ currentRow \in 0..(MAX_ROWS - 1)
    /\ currentCol \in 0..WORD_LENGTH
    /\ status \in {"active", "won", "lost"}

\* C20: corrupt persisted data is treated as no saved game: whenever the
\* stored record is malformed (it does not parse, or it parses with today's
\* dayKey and an answer but guesses, evaluations, currentRow, currentCol or
\* status are missing or out of their ranges), start-up falls back to a new
\* game, so the state in use after init() always has six rows of five cells,
\* cursors in range and a status in {active, won, lost}.
C20_AsStated ==
    pc = "ready" => WellFormed

----------------------------------------------------------------------------
(* Days *)

\* C21: the dayKey stored with a snapshot identifies the calendar day on
\* which the game was created: whatever the events and the day changes, a
\* game created on day D (the page left open past midnight, then any key
\* pressed) is never restored by a reload on a later day, so every restored
\* game is one whose answer was chosen on the day of the reload.
C21_AsStated ==
    /\ [](storage.kind = "json"
            => JSONparse(storage).dayKey = getLocalDayKey(createdOn))
    /\ [][(/\ statusMessage' \in {<<"Restored your game.">>,
                                   <<"Restored completed game.">>}
           /\ ReloadTracked)
             => createdOn = today]_vars

====
